---- MODULE Spec2Model ----
(***************************************************************************)
(* State-machine model of espp::UdpSocket                                  *)
(* (components/socket/include/udp_socket.hpp).                             *)
(*                                                                         *)
(* Every UdpSocket instance has a foreground (caller) thread that runs     *)
(* send / receive / start_receiving, and, once start_receiving succeeded,  *)
(* a worker thread that runs server_task_function over and over.  Each     *)
(* operating-system call is one atomic step, so the two threads interleave *)
(* between OS calls exactly as the code lets them (there is no lock).      *)
(***************************************************************************)
EXTENDS Integers, Sequences, FiniteSets, TLC

\* ------------------------------------------------------------------ bounds
\* Longest payload / largest buffer size considered.
MaxLen == 2
\* Most datagrams the kernel queues on one socket.
MaxQueue == 2

\* ----------------------------------------------------------------- domains
Sockets == {"a", "b"}

\* Remote endpoints that are not UdpSocket instances of this model.
Peers == { [address |-> "10.0.0.2", port |-> 5000],
           [address |-> "10.0.0.3", port |-> 6000] }

LocalAddress == "127.0.0.1"

\* The port the kernel gives an unbound socket on its first sendto.
EphemeralPort(s) == IF s = "a" THEN 49152 ELSE 49153

\* response_timeout values (time units); 0 stands for "no timeout set".
Timeouts == {1, 2}

\* The payload of n bytes whose first byte is b + 1.
Payload(b, n) == [i \in 1..n |-> b + i]

Min(x, y) == IF x <= y THEN x ELSE y

\* ------------------------------------------------- byte order, Socket::Info
\* htons / ntohs on a little-endian host: swap the two bytes of a uint16.
Htons(p) == ((p % 65536) % 256) * 256 + ((p % 65536) \div 256)
Ntohs(p) == Htons(p)

\* struct sockaddr_in of an endpoint.
SockAddr(address, port) == [addr |-> address, port |-> Htons(port)]

\* A default-constructed Socket::Info.
DefaultInfo == [address |-> "", port |-> 0, raw |-> [addr |-> "", port |-> 0]]

\* Socket::Info::init_ipv4
InitIpv4(address, port) ==
    [address |-> address, port |-> port, raw |-> SockAddr(address, port)]

\* Socket::Info::update: refresh address / port from the raw sockaddr.
Update(info) ==
    [info EXCEPT !.address = info.raw.addr, !.port = Ntohs(info.raw.port)]

\* Socket::is_valid
IsValid(fd) == fd >= 0

\* ------------------------------------------------------------- callbacks
\* receive_callback_fn behaviours a caller may register.
\*   "echo"  returns its input, "ack" returns an empty vector,
\*   "sink"  returns no value, "null" is the empty std::function.
ReceiveCallbacks == {"null", "echo", "ack", "sink"}

RunReceiveCallback(cb, data, sender) ==
    CASE cb = "echo" -> [has_value |-> TRUE, value |-> data]
      [] cb = "ack"  -> [has_value |-> TRUE, value |-> <<>>]
      [] OTHER       -> [has_value |-> FALSE, value |-> <<>>]

ResponseCallbacks == {"null", "on_response"}

\* ------------------------------------------------------------------ state
VARIABLES
    socket_,                    \* [Sockets -> Int]: the descriptor, -1 invalid
    task_,                      \* [Sockets -> task record]: std::unique_ptr<Task>
    server_receive_callback_,   \* [Sockets -> ReceiveCallbacks]
    os,                         \* [Sockets -> kernel state of the descriptor]
    fg,                         \* [Sockets -> foreground thread: call in progress]
    wk,                         \* [Sockets -> worker thread: loop cycle in progress]
    hist,                       \* [Sockets -> history of the descriptor:
                                \*  applied: the response_timeout of the latest
                                \*    send whose set_receive_timeout succeeded,
                                \*  created: socket() gave a descriptor,
                                \*  closes: number of close() calls made,
                                \*  at_shutdown: where the worker was when the
                                \*    descriptor was shut down ("" before that),
                                \*  later: the worker began a loop cycle after
                                \*    the descriptor was shut down]
    lcd                         \* the Ili9341 display driver: its static
                                \*  offsets, the last call made on it and
                                \*  what that call wrote to the bus

vars == <<socket_, task_, server_receive_callback_, os, fg, wk, hist, lcd>>

NullTask == [exists |-> FALSE, started |-> FALSE, buffer_size |-> 0]

NoConfig == [none |-> TRUE]

\* The foreground thread between calls / at the start of a call.
NewCall(op, pc, data, cfg) ==
    [pc |-> pc, op |-> op, data |-> data, cfg |-> cfg,
     received_data |-> <<>>, remote_info |-> DefaultInfo,
     ret |-> FALSE,
     ok |-> TRUE,          \* whether the last OS call succeeded
     n |-> 0,              \* last byte count an OS call returned
     rx_timeout |-> 0,     \* the timeout that bounded the call's last recvfrom
     ops |-> <<>>,         \* OS / Task operations this call made, in order
     sent |-> <<>>,        \* datagrams this call transmitted
     consumed |-> <<>>,    \* datagrams this call took off the socket's queue
     cb_args |-> <<>>]     \* arguments of the response-callback invocations

\* The worker thread at the top of a loop cycle.
NewCycle(pc) ==
    [pc |-> pc, received_data |-> <<>>, sender_info |-> DefaultInfo,
     response |-> <<>>, ok |-> TRUE, n |-> 0, rx_timeout |-> 0,
     ops |-> <<>>, sent |-> <<>>, consumed |-> <<>>, cb_args |-> <<>>]

\* The kernel's state for a descriptor socket() returned.
NewOs ==
    [open |-> TRUE, shut |-> FALSE,
     reuse |-> FALSE, port |-> 0, rcvtimeo |-> 0, multicast |-> FALSE,
     groups |-> {}, rxq |-> <<>>]

Return(f, v) == [f EXCEPT !.pc = "returned", !.ret = v]

\* ------------------------------------------------------------ construction
\* UdpSocket::init: socket() then Socket::enable_reuse.
\*   created: socket() returned a descriptor; reuse: enable_reuse succeeded.
init(created, reuse) ==
    [socket_ |-> IF created THEN 3 ELSE -1,
     os |-> [NewOs EXCEPT !.open = created, !.reuse = created /\ reuse]]

\* ------------------------------------------------------- the OS primitives
\* Socket::make_multicast (setsockopt of TTL / interface / loopback).
OsMakeMulticast(k, ok) == IF ok THEN [k EXCEPT !.multicast = TRUE] ELSE k

\* Socket::add_multicast_group (setsockopt IP_ADD_MEMBERSHIP).
OsAddMulticastGroup(k, group, ok) ==
    IF ok THEN [k EXCEPT !.groups = @ \cup {group}] ELSE k

\* Socket::set_receive_timeout (setsockopt SO_RCVTIMEO).
OsSetReceiveTimeout(k, timeout, ok) ==
    IF ok THEN [k EXCEPT !.rcvtimeo = timeout] ELSE k

\* bind(socket_, &server_addr, ...)
OsBind(k, server_addr, ok) ==
    IF ok THEN [k EXCEPT !.port = Ntohs(server_addr.port)] ELSE k

\* recvfrom(socket_, buffer, max_num_bytes, 0, remote_address, &socklen) into
\* a zero-initialised buffer.  got: a queued datagram is delivered; otherwise
\* the call fails (timeout, shutdown or another error) and returns -1.  On a
\* descriptor that was shut down or closed it always fails.
OsRecvFrom(k, max_num_bytes, remote_address, got) ==
    IF got /\ k.rxq # <<>> /\ k.open /\ ~k.shut
    THEN LET d == Head(k.rxq)
             n == Min(Len(d.data), max_num_bytes)
         IN  [n |-> n,
              buffer |-> [i \in 1..max_num_bytes |-> IF i <= n THEN d.data[i] ELSE 0],
              remote_address |-> d.from,
              k |-> [k EXCEPT !.rxq = Tail(@)]]
    ELSE [n |-> -1,
          buffer |-> [i \in 1..max_num_bytes |-> 0],
          remote_address |-> remote_address,
          k |-> k]

\* The socket a datagram for sockaddr `to` is queued on, if any.
Listeners(o, to) ==
    { t \in Sockets : /\ to.addr = LocalAddress
                      /\ o[t].open /\ ~o[t].shut
                      /\ o[t].port # 0
                      /\ o[t].port = Ntohs(to.port)
                      /\ Len(o[t].rxq) < MaxQueue }

\* sendto(socket_, data, size, 0, to, ...) returning n >= 0: the kernel
\* binds an unbound socket to an ephemeral port and hands the first n bytes
\* to the network, which queues them on the addressed socket of this model
\* (or carries them to a remote peer).
OsSendTo(o, s, data, n, to) ==
    LET o1 == IF o[s].port = 0
              THEN [o EXCEPT ![s].port = EphemeralPort(s)] ELSE o
        d  == [data |-> SubSeq(data, 1, n),
               from |-> SockAddr(LocalAddress, o1[s].port)]
    IN  IF n < 0 \/ ~o[s].open THEN o
        ELSE [t \in Sockets |->
                IF t \in Listeners(o1, to)
                THEN [o1[t] EXCEPT !.rxq = Append(@, d)] ELSE o1[t]]

\* ------------------------------------------------------ UdpSocket::receive
\* receive handing back the whole buffer instead of the bytes received.
receive_whole_buffer(sock, k, max_num_bytes, data, remote_info, got) ==
    IF ~IsValid(sock)
    THEN [ret |-> FALSE, data |-> data, remote_info |-> remote_info,
          k |-> k, n |-> 0, called |-> FALSE]
    ELSE LET r == OsRecvFrom(k, max_num_bytes, remote_info.raw, got)
         IN  IF r.n < 0
             THEN [ret |-> FALSE, data |-> data,
                   remote_info |-> [remote_info EXCEPT !.raw = r.remote_address],
                   k |-> r.k, n |-> r.n, called |-> TRUE]
             ELSE [ret |-> TRUE,
                   data |-> r.buffer,
                   remote_info |-> Update([remote_info EXCEPT !.raw = r.remote_address]),
                   k |-> r.k, n |-> r.n, called |-> TRUE]

\* receive emptying data before it knows whether anything was received.
receive_clearing_first(sock, k, max_num_bytes, data, remote_info, got) ==
    IF ~IsValid(sock)
    THEN [ret |-> FALSE, data |-> data, remote_info |-> remote_info,
          k |-> k, n |-> 0, called |-> FALSE]
    ELSE LET r == OsRecvFrom(k, max_num_bytes, remote_info.raw, got)
         IN  IF r.n < 0
             THEN [ret |-> FALSE, data |-> <<>>,
                   remote_info |-> [remote_info EXCEPT !.raw = r.remote_address],
                   k |-> r.k, n |-> r.n, called |-> TRUE]
             ELSE [ret |-> TRUE,
                   data |-> SubSeq(r.buffer, 1, r.n),
                   remote_info |-> Update([remote_info EXCEPT !.raw = r.remote_address]),
                   k |-> r.k, n |-> r.n, called |-> TRUE]

\* One call of receive(max_num_bytes, data, remote_info) on descriptor sock
\* with kernel state k.  called: whether recvfrom was called.
receive(sock, k, max_num_bytes, data, remote_info, got) ==
    IF ~IsValid(sock)
    THEN [ret |-> FALSE, data |-> data, remote_info |-> remote_info,
          k |-> k, n |-> 0, called |-> FALSE]
    ELSE LET r == OsRecvFrom(k, max_num_bytes, remote_info.raw, got)
         IN  IF r.n < 0
             THEN [ret |-> FALSE, data |-> data,
                   remote_info |-> [remote_info EXCEPT !.raw = r.remote_address],
                   k |-> r.k, n |-> r.n, called |-> TRUE]
             ELSE [ret |-> TRUE,
                   data |-> SubSeq(r.buffer, 1, r.n),
                   remote_info |-> Update([remote_info EXCEPT !.raw = r.remote_address]),
                   k |-> r.k, n |-> r.n, called |-> TRUE]

\* What a thread record keeps of a receive() with result r that it made
\* when the kernel state was k.
Received(f, r, k) ==
    IF ~r.called THEN f
    ELSE [f EXCEPT !.n = r.n,
                   !.ok = r.n >= 0,
                   !.ops = Append(@, "recvfrom"),
                   !.rx_timeout = k.rcvtimeo,
                   !.consumed = @ \o SubSeq(k.rxq, 1, Len(k.rxq) - Len(r.k.rxq))]

\* What a thread record keeps of an OS call that reports success or failure.
Called(f, op, ok) == [f EXCEPT !.ops = Append(@, op), !.ok = ok]

\* What a thread record keeps of a sendto of data to `to` that returned n.
Transmitted(f, data, to, n) ==
    [f EXCEPT !.n = n,
              !.ok = n >= 0,
              !.ops = Append(@, "sendto"),
              !.sent = IF n < 0 THEN @
                       ELSE Append(@, [data |-> SubSeq(data, 1, n), to |-> to])]

\* --------------------------------------------------------- UdpSocket::send
\* send leaving the receive timeout alone on a unicast endpoint.
send_enter_keeping_timeout(sock, data, cfg) ==
    IF ~IsValid(sock)
    THEN Return(NewCall("send", "returned", data, cfg), FALSE)
    ELSE IF cfg.is_multicast_endpoint
    THEN NewCall("send", "send_multicast", data, cfg)
    ELSE [NewCall("send", "send_sendto", data, cfg)
            EXCEPT !.remote_info = InitIpv4(cfg.ip_address, cfg.port)]

\* Entry of send: the validity check, then the first step to take.
send_enter(sock, data, cfg) ==
    IF ~IsValid(sock)
    THEN Return(NewCall("send", "returned", data, cfg), FALSE)
    ELSE NewCall("send",
                 IF cfg.is_multicast_endpoint THEN "send_multicast"
                                              ELSE "send_timeout",
                 data, cfg)

\* send setting the receive timeout only when it will wait for a response.
send_after_multicast_lazy_timeout(f, ok) ==
    IF ~ok THEN Return(f, FALSE)
    ELSE IF f.cfg.wait_for_response THEN [f EXCEPT !.pc = "send_timeout"]
    ELSE [f EXCEPT !.pc = "send_sendto",
                   !.remote_info = InitIpv4(f.cfg.ip_address, f.cfg.port)]

\* After Socket::make_multicast returned ok.
send_after_multicast(f, ok) ==
    IF ~ok THEN Return(f, FALSE) ELSE [f EXCEPT !.pc = "send_timeout"]

\* send going on to sendto although set_receive_timeout failed.
send_after_timeout_unchecked(f, ok) ==
    [f EXCEPT !.pc = "send_sendto",
              !.remote_info = InitIpv4(f.cfg.ip_address, f.cfg.port)]

\* After Socket::set_receive_timeout returned ok: build server_info.
send_after_timeout(f, ok) ==
    IF ~ok THEN Return(f, FALSE)
    ELSE [f EXCEPT !.pc = "send_sendto",
                   !.remote_info = InitIpv4(f.cfg.ip_address, f.cfg.port)]

\* send waiting for a response of at most zero bytes.
send_after_sendto_no_size_check(f, num_bytes_sent) ==
    IF num_bytes_sent < 0 THEN Return(f, FALSE)
    ELSE IF ~f.cfg.wait_for_response THEN Return(f, TRUE)
    ELSE [f EXCEPT !.pc = "send_receive"]

\* send waiting for the response although sendto failed.
send_after_sendto_unchecked(f, num_bytes_sent) ==
    IF ~f.cfg.wait_for_response THEN Return(f, num_bytes_sent >= 0)
    ELSE IF f.cfg.response_size = 0 THEN Return(f, num_bytes_sent >= 0)
    ELSE [f EXCEPT !.pc = "send_receive"]

\* After sendto returned num_bytes_sent.
send_after_sendto(f, num_bytes_sent) ==
    IF num_bytes_sent < 0 THEN Return(f, FALSE)
    ELSE IF ~f.cfg.wait_for_response THEN Return(f, TRUE)
    ELSE IF f.cfg.response_size = 0 THEN Return(f, TRUE)
    ELSE [f EXCEPT !.pc = "send_receive"]

\* send reporting success although no response was received.
send_after_receive_lenient(f, r) ==
    LET g == [f EXCEPT !.received_data = r.data,
                       !.remote_info = r.remote_info]
    IN  IF ~r.ret THEN Return(g, TRUE)
        ELSE IF f.cfg.on_response_callback # "null"
        THEN [g EXCEPT !.pc = "send_callback"]
        ELSE Return(g, TRUE)

\* send collecting responses until a receive fails.
send_after_receive_collect_all(f, r) ==
    IF ~r.ret THEN Return(f, f.consumed # <<>>)
    ELSE [f EXCEPT !.received_data = r.data,
                   !.remote_info = r.remote_info,
                   !.pc = "send_receive"]

\* send invoking the response callback whether or not a response came.
send_after_receive_always_calling_back(f, r) ==
    LET g == [f EXCEPT !.received_data = r.data,
                       !.remote_info = r.remote_info]
    IN  IF f.cfg.on_response_callback # "null"
        THEN [g EXCEPT !.pc = "send_callback"]
        ELSE Return(g, r.ret)

\* After receive(response_size, received_data, server_info) returned r.
send_after_receive(f, r) ==
    IF ~r.ret THEN Return(f, FALSE)
    ELSE LET g == [f EXCEPT !.received_data = r.data,
                            !.remote_info = r.remote_info]
         IN  IF f.cfg.on_response_callback # "null"
             THEN [g EXCEPT !.pc = "send_callback"]
             ELSE Return(g, TRUE)

\* send handing the response callback the payload it sent.
send_after_callback_wrong_bytes(f) ==
    Return([f EXCEPT !.cb_args = Append(@, f.data)], TRUE)

\* The response callback is invoked with received_data; send returns true.
send_after_callback(f) ==
    Return([f EXCEPT !.cb_args = Append(@, f.received_data)], TRUE)

\* ---- the steps of send as actions of the foreground thread of socket s
Send(s, data, cfg) ==
    /\ fg[s].pc = "idle"
    /\ fg' = [fg EXCEPT ![s] = send_enter(socket_[s], data, cfg)]
    /\ UNCHANGED <<lcd, socket_, task_, server_receive_callback_, os, wk, hist>>

SendMakeMulticast(s, ok) ==
    /\ fg[s].pc = "send_multicast"
    /\ ok => os[s].open
    /\ os' = [os EXCEPT ![s] = OsMakeMulticast(@, ok)]
    /\ fg' = [fg EXCEPT ![s] =
                send_after_multicast(Called(@, "make_multicast", ok), ok)]
    /\ UNCHANGED <<lcd, socket_, task_, server_receive_callback_, wk, hist>>

SendSetReceiveTimeout(s, ok) ==
    /\ fg[s].pc = "send_timeout"
    /\ ok => os[s].open
    /\ os' = [os EXCEPT ![s] = OsSetReceiveTimeout(@, fg[s].cfg.response_timeout, ok)]
    /\ fg' = [fg EXCEPT ![s] =
                send_after_timeout(Called(@, "set_receive_timeout", ok), ok)]
    /\ hist' = [hist EXCEPT ![s].applied =
                IF ok THEN fg[s].cfg.response_timeout ELSE @]
    /\ UNCHANGED <<lcd, socket_, task_, server_receive_callback_, wk>>

SendSendTo(s, num_bytes_sent) ==
    /\ fg[s].pc = "send_sendto"
    /\ num_bytes_sent \in -1..Len(fg[s].data)
    /\ os[s].open \/ num_bytes_sent < 0
    /\ os' = OsSendTo(os, s, fg[s].data, num_bytes_sent, fg[s].remote_info.raw)
    /\ fg' = [fg EXCEPT ![s] =
                send_after_sendto(
                    Transmitted(@, fg[s].data, fg[s].remote_info.raw, num_bytes_sent),
                    num_bytes_sent)]
    /\ UNCHANGED <<lcd, socket_, task_, server_receive_callback_, wk, hist>>

SendReceive(s, got) ==
    /\ fg[s].pc = "send_receive"
    /\ got => os[s].rxq # <<>>
    /\ LET r == receive(socket_[s], os[s], fg[s].cfg.response_size,
                        fg[s].received_data, fg[s].remote_info, got)
       IN  /\ os' = [os EXCEPT ![s] = r.k]
           /\ fg' = [fg EXCEPT ![s] =
                        send_after_receive(Received(@, r, os[s]), r)]
    /\ UNCHANGED <<lcd, socket_, task_, server_receive_callback_, wk, hist>>

SendCallback(s) ==
    /\ fg[s].pc = "send_callback"
    /\ fg' = [fg EXCEPT ![s] = send_after_callback(@)]
    /\ UNCHANGED <<lcd, socket_, task_, server_receive_callback_, os, wk, hist>>


\* ---- receive called directly by the caller, with the previous content of
\* its out-parameters data and remote_info
receive_call(sock, k, max_num_bytes, data, remote_info, got) ==
    LET r == receive(sock, k, max_num_bytes, data, remote_info, got)
        f == NewCall("receive", "returned", data,
                     [max_num_bytes |-> max_num_bytes, remote_info |-> remote_info])
    IN  Return([Received(f, r, k) EXCEPT !.received_data = r.data,
                                           !.remote_info = r.remote_info],
               r.ret)

Receive(s, max_num_bytes, data, remote_info, got) ==
    /\ fg[s].pc = "idle"
    /\ got => (IsValid(socket_[s]) /\ os[s].rxq # <<>>)
    /\ os' = [os EXCEPT ![s] =
                receive(socket_[s], @, max_num_bytes, data, remote_info, got).k]
    /\ fg' = [fg EXCEPT ![s] =
                receive_call(socket_[s], os[s], max_num_bytes, data, remote_info, got)]
    /\ UNCHANGED <<lcd, socket_, task_, server_receive_callback_, wk, hist>>

\* ---------------------------------------------- UdpSocket::start_receiving
\* start_receiving without the check for a started task.
start_receiving_enter_unguarded(task, sock, callback, cfg) ==
    IF ~IsValid(sock)
    THEN [f |-> Return(NewCall("start_receiving", "returned", <<>>, cfg), FALSE),
          callback |-> callback]
    ELSE [f |-> NewCall("start_receiving", "sr_bind", <<>>, cfg),
          callback |-> cfg.on_receive_callback]

\* start_receiving without the check of the descriptor.
start_receiving_enter_unvalidated(task, sock, callback, cfg) ==
    IF task.exists /\ task.started
    THEN [f |-> Return(NewCall("start_receiving", "returned", <<>>, cfg), FALSE),
          callback |-> callback]
    ELSE [f |-> NewCall("start_receiving", "sr_bind", <<>>, cfg),
          callback |-> cfg.on_receive_callback]

\* Entry of start_receiving: the two checks, then the callback is stored.
\* Gives the foreground thread and the new server_receive_callback_.
start_receiving_enter(task, sock, callback, cfg) ==
    IF task.exists /\ task.started
    THEN [f |-> Return(NewCall("start_receiving", "returned", <<>>, cfg), FALSE),
          callback |-> callback]
    ELSE IF ~IsValid(sock)
    THEN [f |-> Return(NewCall("start_receiving", "returned", <<>>, cfg), FALSE),
          callback |-> callback]
    ELSE [f |-> NewCall("start_receiving", "sr_bind", <<>>, cfg),
          callback |-> cfg.on_receive_callback]

\* After bind returned err (ok: err >= 0).
start_receiving_after_bind(f, ok) ==
    IF ~ok THEN Return(f, FALSE)
    ELSE IF f.cfg.is_multicast_endpoint THEN [f EXCEPT !.pc = "sr_multicast"]
    ELSE [f EXCEPT !.pc = "sr_task"]

\* After Socket::make_multicast returned ok.
start_receiving_after_multicast(f, ok) ==
    IF ~ok THEN Return(f, FALSE) ELSE [f EXCEPT !.pc = "sr_group"]

\* start_receiving starting the worker although joining the group failed.
start_receiving_after_group_unchecked(f, ok) == [f EXCEPT !.pc = "sr_task"]

\* After Socket::add_multicast_group returned ok.
start_receiving_after_group(f, ok) ==
    IF ~ok THEN Return(f, FALSE) ELSE [f EXCEPT !.pc = "sr_task"]

\* Task::make_unique(task_config) with the loop bound to buffer_size, then
\* Task::start.
MakeTask(buffer_size) ==
    [exists |-> TRUE, started |-> TRUE, buffer_size |-> buffer_size]

StartReceiving(s, cfg) ==
    /\ fg[s].pc = "idle"
    /\ LET e == start_receiving_enter(task_[s], socket_[s],
                                      server_receive_callback_[s], cfg)
       IN  /\ fg' = [fg EXCEPT ![s] = e.f]
           /\ server_receive_callback_' =
                [server_receive_callback_ EXCEPT ![s] = e.callback]
    /\ UNCHANGED <<lcd, socket_, task_, os, wk, hist>>

StartReceivingBind(s, ok) ==
    /\ fg[s].pc = "sr_bind"
    /\ ok => os[s].open
    /\ os' = [os EXCEPT ![s] =
                OsBind(@, SockAddr("0.0.0.0", fg[s].cfg.port), ok)]
    /\ fg' = [fg EXCEPT ![s] =
                start_receiving_after_bind(Called(@, "bind", ok), ok)]
    /\ UNCHANGED <<lcd, socket_, task_, server_receive_callback_, wk, hist>>

StartReceivingMakeMulticast(s, ok) ==
    /\ fg[s].pc = "sr_multicast"
    /\ ok => os[s].open
    /\ os' = [os EXCEPT ![s] = OsMakeMulticast(@, ok)]
    /\ fg' = [fg EXCEPT ![s] =
                start_receiving_after_multicast(Called(@, "make_multicast", ok), ok)]
    /\ UNCHANGED <<lcd, socket_, task_, server_receive_callback_, wk, hist>>

StartReceivingAddGroup(s, ok) ==
    /\ fg[s].pc = "sr_group"
    /\ ok => os[s].open
    /\ os' = [os EXCEPT ![s] =
                OsAddMulticastGroup(@, fg[s].cfg.multicast_group, ok)]
    /\ fg' = [fg EXCEPT ![s] =
                start_receiving_after_group(Called(@, "add_multicast_group", ok), ok)]
    /\ UNCHANGED <<lcd, socket_, task_, server_receive_callback_, wk, hist>>

StartReceivingStartTask(s) ==
    /\ fg[s].pc = "sr_task"
    /\ task_' = [task_ EXCEPT ![s] = MakeTask(fg[s].cfg.buffer_size)]
    /\ wk' = [wk EXCEPT ![s] = NewCycle("top")]
    /\ fg' = [fg EXCEPT ![s] =
                Return(Called(@, "task_start", TRUE), TRUE)]
    /\ UNCHANGED <<lcd, socket_, server_receive_callback_, os, hist>>

\* --------------------------------------- UdpSocket::cleanup, ~UdpSocket
\* shutdown(socket_, 0): a receive blocked on the descriptor returns with an
\* error and no further datagram is queued.
OsShutdown(k) == [k EXCEPT !.shut = TRUE]

\* close(socket_): the descriptor is gone, with its port and its queue.
OsClose(k) == [k EXCEPT !.open = FALSE, !.port = 0, !.rxq = <<>>]

\* The end of cleanup(): it returns to its caller, or, in the destructor,
\* the members are destroyed next.
cleanup_done(f) ==
    IF f.op = "destroy" THEN [f EXCEPT !.pc = "destroy_callback"]
    ELSE Return(f, TRUE)

\* Entry of cleanup(), called on its own (op "cleanup") or as the body of the
\* destructor (op "destroy"): nothing to do on an invalid descriptor.
cleanup_enter(op, sock) ==
    IF IsValid(sock)
    THEN NewCall(op, "cleanup_shutdown", <<>>, [was_valid |-> TRUE])
    ELSE cleanup_done(NewCall(op, "idle", <<>>, [was_valid |-> FALSE]))

\* cleanup that closes the descriptor and still holds it as valid.
cleanup_after_close_unmarked(sock) == sock

\* socket_ = -1
cleanup_after_close(sock) == -1

Cleanup(s) ==
    /\ fg[s].pc = "idle"
    /\ fg' = [fg EXCEPT ![s] = cleanup_enter("cleanup", socket_[s])]
    /\ UNCHANGED <<lcd, socket_, task_, server_receive_callback_, os, wk, hist>>

Destroy(s) ==
    /\ fg[s].pc = "idle"
    /\ fg' = [fg EXCEPT ![s] = cleanup_enter("destroy", socket_[s])]
    /\ UNCHANGED <<lcd, socket_, task_, server_receive_callback_, os, wk, hist>>

CleanupShutdown(s) ==
    /\ fg[s].pc = "cleanup_shutdown"
    /\ os' = [os EXCEPT ![s] = OsShutdown(@)]
    /\ fg' = [fg EXCEPT ![s] =
                [Called(@, "shutdown", os[s].open) EXCEPT !.pc = "cleanup_close"]]
    /\ hist' = [hist EXCEPT ![s].at_shutdown =
                IF @ = "" THEN wk[s].pc ELSE @]
    /\ UNCHANGED <<lcd, socket_, task_, server_receive_callback_, wk>>

CleanupClose(s) ==
    /\ fg[s].pc = "cleanup_close"
    /\ os' = [os EXCEPT ![s] = OsClose(@)]
    /\ fg' = [fg EXCEPT ![s] =
                [Called(@, "close", os[s].open) EXCEPT !.pc = "cleanup_mark"]]
    /\ hist' = [hist EXCEPT ![s].closes = @ + 1]
    /\ UNCHANGED <<lcd, socket_, task_, server_receive_callback_, wk>>

CleanupMark(s) ==
    /\ fg[s].pc = "cleanup_mark"
    /\ socket_' = [socket_ EXCEPT ![s] = cleanup_after_close(@)]
    /\ fg' = [fg EXCEPT ![s] = cleanup_done(@)]
    /\ UNCHANGED <<lcd, task_, server_receive_callback_, os, wk, hist>>

\* The members are destroyed in reverse order of declaration: logger_, then
\* server_receive_callback_, then task_ (socket_ is an int).
DestroyCallback(s) ==
    /\ fg[s].pc = "destroy_callback"
    /\ server_receive_callback_' =
            [server_receive_callback_ EXCEPT ![s] = "destroyed"]
    /\ fg' = [fg EXCEPT ![s].pc = "destroy_task"]
    /\ UNCHANGED <<lcd, socket_, task_, os, wk, hist>>

\* Task::~Task stops the thread and joins it: the destructor returns once
\* the worker is between two loop cycles.
DestroyTask(s) ==
    /\ fg[s].pc = "destroy_task"
    /\ wk[s].pc \in {"off", "returned"}
    /\ task_' = [task_ EXCEPT ![s] = NullTask]
    /\ wk' = [wk EXCEPT ![s].pc = "off"]
    /\ fg' = [fg EXCEPT ![s].pc = "destroyed"]
    /\ UNCHANGED <<lcd, socket_, server_receive_callback_, os, hist>>

\* The steps of cleanup() and of the destructor after their entry.
CleanupSteps(s) ==
    \/ CleanupShutdown(s)
    \/ CleanupClose(s)
    \/ CleanupMark(s)

DestroySteps(s) ==
    \/ DestroyCallback(s)
    \/ DestroyTask(s)

\* ----------------------------------------- UdpSocket::server_task_function
\* A server loop that ends for good when its receive fails.
server_after_receive_giving_up(w, r, callback) ==
    LET g == [w EXCEPT !.received_data = r.data, !.sender_info = r.remote_info]
    IN  IF ~r.ret THEN [g EXCEPT !.pc = "off"]
        ELSE IF callback = "null" THEN [g EXCEPT !.pc = "returned"]
        ELSE [g EXCEPT !.pc = "callback"]

\* A server loop that returns at once when its receive fails.
server_after_receive_no_backoff(w, r, callback) ==
    LET g == [w EXCEPT !.received_data = r.data, !.sender_info = r.remote_info]
    IN  IF ~r.ret THEN [g EXCEPT !.pc = "returned"]
        ELSE IF callback = "null" THEN [g EXCEPT !.pc = "returned"]
        ELSE [g EXCEPT !.pc = "callback"]

\* A server loop that treats a missing callback like a failed receive.
server_after_receive_null_as_failure(w, r, callback) ==
    LET g == [w EXCEPT !.received_data = r.data, !.sender_info = r.remote_info]
    IN  IF ~r.ret \/ callback = "null" THEN [g EXCEPT !.pc = "backoff"]
        ELSE [g EXCEPT !.pc = "callback"]

\* After receive(buffer_size, received_data, sender_info) returned r.
server_after_receive(w, r, callback) ==
    LET g == [w EXCEPT !.received_data = r.data, !.sender_info = r.remote_info]
    IN  IF ~r.ret THEN [g EXCEPT !.pc = "backoff"]
        ELSE IF callback = "null" THEN [g EXCEPT !.pc = "returned"]
        ELSE [g EXCEPT !.pc = "callback"]

\* A server loop that replies, with nothing, when the callback gave no value.
server_after_callback_always_replying(w, callback) ==
    LET maybe_response == RunReceiveCallback(callback, w.received_data, w.sender_info)
        g == [w EXCEPT !.cb_args = Append(@, [data |-> w.received_data,
                                             sender |-> w.sender_info])]
    IN  [g EXCEPT !.pc = "reply", !.response = maybe_response.value]

\* The callback is invoked; its result decides whether a reply is sent.
server_after_callback(w, callback) ==
    LET maybe_response == RunReceiveCallback(callback, w.received_data, w.sender_info)
        g == [w EXCEPT !.cb_args = Append(@, [data |-> w.received_data,
                                             sender |-> w.sender_info])]
    IN  IF ~maybe_response.has_value THEN [g EXCEPT !.pc = "returned"]
        ELSE [g EXCEPT !.pc = "reply", !.response = maybe_response.value]

\* What a read of the member server_receive_callback_ can give: its value,
\* or anything once the member has been destroyed.
CallbackRead(callback) ==
    IF callback = "destroyed" THEN ReceiveCallbacks ELSE {callback}

\* The Task's thread runs one more cycle while it is started.
ServerReceive(s, got) ==
    /\ wk[s].pc = "top"
    /\ task_[s].exists /\ task_[s].started
    /\ got => (IsValid(socket_[s]) /\ os[s].rxq # <<>>)
    /\ LET r == receive(socket_[s], os[s], task_[s].buffer_size,
                        <<>>, DefaultInfo, got)
       IN  /\ os' = [os EXCEPT ![s] = r.k]
           /\ \E callback \in CallbackRead(server_receive_callback_[s]) :
                wk' = [wk EXCEPT ![s] =
                        server_after_receive(
                            Received(NewCycle("top"), r, os[s]), r, callback)]
    /\ UNCHANGED <<lcd, socket_, task_, server_receive_callback_, fg, hist>>

\* cv.wait_for(lk, 1ms)
ServerBackoff(s) ==
    /\ wk[s].pc = "backoff"
    /\ wk' = [wk EXCEPT ![s] = [Called(@, "wait_for", TRUE) EXCEPT !.pc = "returned"]]
    /\ UNCHANGED <<lcd, socket_, task_, server_receive_callback_, os, fg, hist>>

ServerCallback(s) ==
    /\ wk[s].pc = "callback"
    /\ \E callback \in CallbackRead(server_receive_callback_[s]) :
        wk' = [wk EXCEPT ![s] = server_after_callback(@, callback)]
    /\ UNCHANGED <<lcd, socket_, task_, server_receive_callback_, os, fg, hist>>

\* sendto(socket_, response, ..., sender_address): the result is only logged.
ServerReply(s, num_bytes_sent) ==
    /\ wk[s].pc = "reply"
    /\ num_bytes_sent \in -1..Len(wk[s].response)
    /\ os[s].open \/ num_bytes_sent < 0
    /\ os' = OsSendTo(os, s, wk[s].response, num_bytes_sent, wk[s].sender_info.raw)
    /\ wk' = [wk EXCEPT ![s] =
                [Transmitted(@, wk[s].response, wk[s].sender_info.raw, num_bytes_sent)
                    EXCEPT !.pc = "returned"]]
    /\ UNCHANGED <<lcd, socket_, task_, server_receive_callback_, fg, hist>>

\* Task's thread function: while the task is started, call the loop again.
ServerLoop(s) ==
    /\ wk[s].pc = "returned"
    /\ task_[s].exists /\ task_[s].started
    /\ wk' = [wk EXCEPT ![s] = NewCycle("top")]
    /\ hist' = [hist EXCEPT ![s].later = (hist[s].at_shutdown # "")]
    /\ UNCHANGED <<lcd, socket_, task_, server_receive_callback_, os, fg>>

\* ------------------------------------------------------------ environment
\* The caller has the result of its call and is free to make the next one.
Caller(s) ==
    /\ fg[s].pc = "returned"
    /\ fg' = [fg EXCEPT ![s] = NewCall("none", "idle", <<>>, NoConfig)]
    /\ UNCHANGED <<lcd, socket_, task_, server_receive_callback_, os, wk, hist>>

\* The byte every payload of a remote peer starts after.
Seed(p) == p.port \div 100

\* A datagram of n bytes from remote peer p.
PeerDatagram(p, n) ==
    [data |-> Payload(Seed(p), n), from |-> SockAddr(p.address, p.port)]

\* A datagram from a remote peer arrives at socket s, which has a local port.
Deliver(s, d) ==
    /\ IsValid(socket_[s])
    /\ os[s].open /\ ~os[s].shut
    /\ os[s].port # 0
    /\ Len(os[s].rxq) < MaxQueue
    /\ os' = [os EXCEPT ![s].rxq = Append(@, d)]
    /\ UNCHANGED <<lcd, socket_, task_, server_receive_callback_, fg, wk, hist>>

\* ============================================================== Ili9341
\* Command::caset, Command::raset, Command::ramwr.
caset == 42
raset == 43
ramwr == 44

\* static constexpr int max_bytes_to_send = 1024 * 2: the number of uint16_t
\* elements of color_data, and the most pixels one send_data carries.
max_bytes_to_send == 1024 * 2

\* Conversion of an integer to uint16_t.
Uint16(v) == v % 65536

\* The driver before any call: static int offset_x_, offset_y_.
NewDisplay ==
    [offset_x_ |-> 0, offset_y_ |-> 0,
     call |-> [op |-> "none"],
     bus |-> <<>>]

\* send_command(command): the DC pin at COMMAND level, one byte written.
send_command(command) ==
    [dc |-> "command", data |-> <<command>>, length |-> 1]

\* send_data(data, length): the DC pin at DATA level, length bytes written.
\* data is the bytes themselves for a window, and the byte pattern that
\* repeats through the buffer for pixels.
send_data(data, length) ==
    [dc |-> "data", data |-> data, length |-> length]

\* data[0] = (start >> 8) & 0xFF; data[1] = start & 0xFF;
\* data[2] = (end >> 8) & 0xFF;   data[3] = end & 0xFF;
window_data(start, end) ==
    <<(start \div 256) % 256, start % 256, (end \div 256) % 256, end % 256>>

\* for (int i=0; i<size; i+=max_bytes_to_send) send_data(color_data, num_bytes * 2)
\* where num_bytes = std::min(size - i, max_bytes_to_send) and color_data
\* was filled by memset with the low byte of color.
RECURSIVE clear_chunks(_, _, _)
clear_chunks(size, i, color) ==
    IF i < size
    THEN LET num_bytes == Min(size - i, max_bytes_to_send)
         IN  <<send_data(<<color % 256, color % 256>>, num_bytes * 2)>>
                \o clear_chunks(size, i + max_bytes_to_send, color)
    ELSE <<>>

\* Ili9341::clear(x, y, width, height, color): what it writes to the bus of
\* driver d.
clear(d, x, y, width, height, color) ==
    LET start_x == Uint16(x + d.offset_x_)
        end_x   == Uint16((x + width) + d.offset_x_)
        start_y == Uint16(y + d.offset_y_)
        end_y   == Uint16((y + width) + d.offset_y_)
        size    == width * height   \* uint32_t: no side here reaches 2^16
    IN  << send_command(caset), send_data(window_data(start_x, end_x), 4),
           send_command(raset), send_data(window_data(start_y, end_y), 4),
           send_command(ramwr) >> \o clear_chunks(size, 0, color)

SocketVars == <<socket_, task_, server_receive_callback_, os, fg, wk, hist>>

\* Ili9341::set_offset(x, y)
SetOffset(x, y) ==
    /\ lcd' = [lcd EXCEPT !.offset_x_ = x, !.offset_y_ = y,
                          !.call = [op |-> "set_offset", x |-> x, y |-> y],
                          !.bus = <<>>]
    /\ UNCHANGED SocketVars

Clear(x, y, width, height, color) ==
    /\ lcd' = [lcd EXCEPT !.call = [op |-> "clear", x |-> x, y |-> y,
                                    width |-> width, height |-> height,
                                    color |-> color],
                          !.bus = clear(lcd, x, y, width, height, color)]
    /\ UNCHANGED SocketVars

\* Areas cleared: origins with a zero and a non-zero high byte and one at the
\* end of the 16-bit range, sides giving fewer and more pixels than one chunk.
ClearOrigins == {0, 300, 65535}
ClearSides == {0, 1, 2, 40, 64}
ClearColors == {0, 63519}
DisplayOffsets == {0, 35}

\* ------------------------------------------------------- input domains
Lengths == 0..MaxLen

Destinations == { p \in Peers : p.port = 5000 }

\* Every SendConfig over the given timeouts.
SendConfigs(timeouts) ==
    { [ip_address |-> p.address, port |-> p.port,
       is_multicast_endpoint |-> mc, wait_for_response |-> w,
       response_size |-> rs, on_response_callback |-> cb,
       response_timeout |-> tmo] :
      p \in Destinations, mc \in BOOLEAN, w \in BOOLEAN, rs \in Lengths,
      cb \in ResponseCallbacks, tmo \in timeouts }

\* Two typical uses of send: a multicast fire-and-forget and a unicast
\* request that waits for a response of up to MaxLen bytes.
Announce ==
    [ip_address |-> "239.1.1.1", port |-> 5000,
     is_multicast_endpoint |-> TRUE, wait_for_response |-> FALSE,
     response_size |-> 0, on_response_callback |-> "null",
     response_timeout |-> 1]

Request ==
    [ip_address |-> "10.0.0.2", port |-> 5000,
     is_multicast_endpoint |-> FALSE, wait_for_response |-> TRUE,
     response_size |-> MaxLen, on_response_callback |-> "on_response",
     response_timeout |-> 2]

\* Two typical uses of start_receiving: a unicast echo server and a
\* multicast listener that only consumes.
EchoServer ==
    [port |-> 5000, buffer_size |-> MaxLen, is_multicast_endpoint |-> FALSE,
     multicast_group |-> "", on_receive_callback |-> "echo"]

GroupListener ==
    [port |-> 6000, buffer_size |-> 1, is_multicast_endpoint |-> TRUE,
     multicast_group |-> "239.1.1.1", on_receive_callback |-> "sink"]

\* Each remote peer sends datagrams of one length: MaxLen bytes or 1 byte.
PeerLength(p) == IF p.port = 5000 THEN MaxLen ELSE 1

PeerDatagrams == { PeerDatagram(p, PeerLength(p)) : p \in Peers }

AllPeerDatagrams == { PeerDatagram(p, n) : p \in Peers, n \in Lengths }

\* ---------------------------------------------------------- the threads
\* The steps send takes after its entry.
SendSteps(s) ==
    \/ \E ok \in BOOLEAN : SendMakeMulticast(s, ok)
    \/ \E ok \in BOOLEAN : SendSetReceiveTimeout(s, ok)
    \/ \E n \in -1..MaxLen : SendSendTo(s, n)
    \/ \E got \in BOOLEAN : SendReceive(s, got)
    \/ SendCallback(s)

\* The steps start_receiving takes after its entry.
StartReceivingSteps(s) ==
    \/ \E ok \in BOOLEAN : StartReceivingBind(s, ok)
    \/ \E ok \in BOOLEAN : StartReceivingMakeMulticast(s, ok)
    \/ \E ok \in BOOLEAN : StartReceivingAddGroup(s, ok)
    \/ StartReceivingStartTask(s)

\* The worker thread.
Worker(s) ==
    \/ \E got \in BOOLEAN : ServerReceive(s, got)
    \/ ServerBackoff(s)
    \/ ServerCallback(s)
    \/ \E n \in -1..MaxLen : ServerReply(s, n)
    \/ ServerLoop(s)

\* The state after construction with the given outcomes of init() for
\* socket "a"; socket "b" is successfully constructed.
InitFrom(outcomes) ==
    \E o \in outcomes :
        LET made == [s \in Sockets |->
                        IF s = "a" THEN init(o[1], o[2]) ELSE init(TRUE, TRUE)]
        IN  /\ socket_ = [s \in Sockets |-> made[s].socket_]
            /\ os = [s \in Sockets |-> made[s].os]
            /\ task_ = [s \in Sockets |-> NullTask]
            /\ server_receive_callback_ = [s \in Sockets |-> "null"]
            /\ fg = [s \in Sockets |-> NewCall("none", "idle", <<>>, NoConfig)]
            /\ wk = [s \in Sockets |-> NewCycle("off")]
            /\ hist = [s \in Sockets |->
                        [applied |-> 0, created |-> IsValid(made[s].socket_),
                         closes |-> 0, at_shutdown |-> "", later |-> FALSE]]
            /\ lcd = NewDisplay

\* ------------------------------------------------------------ specification
\* One socket used in every way at once: a caller that sends, receives and
\* starts the server, the worker thread, and peers that send datagrams.
Init == InitFrom({<<TRUE, TRUE>>, <<FALSE, FALSE>>})

Next ==
    \E s \in {"a"} :
        \/ \E cfg \in {Announce, Request} : Send(s, Payload(0, MaxLen), cfg)
        \/ SendSteps(s)
        \/ \E got \in BOOLEAN :
              Receive(s, 1, Payload(0, MaxLen), DefaultInfo, got)
        \/ \E cfg \in {EchoServer, GroupListener} : StartReceiving(s, cfg)
        \/ StartReceivingSteps(s)
        \/ Caller(s)
        \/ Worker(s)
        \/ \E d \in PeerDatagrams : Deliver(s, d)

Spec == Init /\ [][Next]_vars

\* A caller that only sends, with every SendConfig and payload length.
NextSend ==
    \E s \in {"a"} :
        \/ \E n \in Lengths, cfg \in SendConfigs(Timeouts) :
              Send(s, Payload(0, n), cfg)
        \/ SendSteps(s)
        \/ Caller(s)
        \/ \E d \in PeerDatagrams : Deliver(s, d)

SpecSend == Init /\ [][NextSend]_vars

\* A caller that receives with every buffer size and previous content of
\* its out-parameters, on a socket a fire-and-forget send gave a local port.
NextReceive ==
    \E s \in {"a"} :
        \/ Send(s, Payload(0, 1), [Announce EXCEPT !.is_multicast_endpoint = FALSE])
        \/ \E ok \in BOOLEAN : SendSetReceiveTimeout(s, ok)
        \/ \E n \in -1..MaxLen : SendSendTo(s, n)
        \/ \E m \in Lengths, n \in {0, MaxLen},
              info \in {DefaultInfo, InitIpv4("10.0.0.3", 6000)},
              got \in BOOLEAN :
              Receive(s, m, Payload(0, n), info, got)
        \/ Caller(s)
        \/ \E d \in AllPeerDatagrams : Deliver(s, d)

SpecReceive == Init /\ [][NextReceive]_vars

\* Empty and longest datagrams of every remote peer.
ServerDatagrams == { PeerDatagram(p, n) : p \in Peers, n \in {0, MaxLen} }

\* A socket used as a server only: start_receiving with every callback and
\* two buffer sizes, the worker thread, and peers sending datagrams.
ServerConfigs ==
    { [EchoServer EXCEPT !.on_receive_callback = cb, !.buffer_size = b] :
        cb \in ReceiveCallbacks, b \in {1, MaxLen} }

NextServer ==
    \E s \in {"a"} :
        \/ \E cfg \in ServerConfigs : StartReceiving(s, cfg)
        \/ \E ok \in BOOLEAN : StartReceivingBind(s, ok)
        \/ StartReceivingStartTask(s)
        \/ Caller(s)
        \/ Worker(s)
        \/ \E d \in ServerDatagrams : Deliver(s, d)

SpecServer == Init /\ [][NextServer]_vars

\* An echo server with a fairly scheduled worker thread and an OS whose
\* recvfrom does not fail for ever while a datagram is queued.
NextServerFair ==
    \E s \in {"a"} :
        \/ StartReceiving(s, EchoServer)
        \/ \E ok \in BOOLEAN : StartReceivingBind(s, ok)
        \/ StartReceivingStartTask(s)
        \/ Caller(s)
        \/ Worker(s)
        \/ \E d \in PeerDatagrams : Deliver(s, d)

SpecServerFair ==
    /\ Init /\ [][NextServerFair]_vars
    /\ \A s \in {"a"} : /\ WF_vars(Worker(s))
                        /\ SF_vars(ServerReceive(s, TRUE))

\* The whole life of one socket: construction with every outcome of init(),
\* calls on both threads, cleanup() and destruction.
InitLife == InitFrom({<<TRUE, TRUE>>, <<TRUE, FALSE>>, <<FALSE, FALSE>>})

NextLife ==
    \E s \in {"a"} :
        \/ \E cfg \in {Announce, Request} : Send(s, Payload(0, 1), cfg)
        \/ SendSteps(s)
        \/ \E got \in BOOLEAN :
              Receive(s, 1, <<>>, DefaultInfo, got)
        \/ \E cfg \in {EchoServer, GroupListener} : StartReceiving(s, cfg)
        \/ StartReceivingSteps(s)
        \/ Cleanup(s)
        \/ Destroy(s)
        \/ CleanupSteps(s)
        \/ DestroySteps(s)
        \/ Caller(s)
        \/ Worker(s)
        \/ Deliver(s, PeerDatagram(CHOOSE p \in Peers : p.port = 5000, 1))

SpecLife == InitLife /\ [][NextLife]_vars

\* The display driver alone: offsets set and areas cleared.
NextClear ==
    \/ \E x \in DisplayOffsets, y \in DisplayOffsets : SetOffset(x, y)
    \/ \E x \in ClearOrigins, y \in ClearOrigins,
          width \in ClearSides, height \in ClearSides, color \in ClearColors :
          Clear(x, y, width, height, color)

SpecClear == Init /\ [][NextClear]_vars

\* An echo round trip between two sockets of this host: socket "b" serves on
\* port 5000 with the echo callback, socket "a" sends it requests and waits
\* for the response.  A request is made when no datagram of an earlier one
\* is still under way, and the server's sendto hands the kernel its whole
\* datagram or fails.
EchoConfigs ==
    { [EchoServer EXCEPT !.buffer_size = b] : b \in {1, MaxLen} }

EchoRequests ==
    { [Request EXCEPT !.ip_address = LocalAddress, !.response_size = rs,
                      !.on_response_callback = cb] :
        rs \in {0, 1, MaxLen}, cb \in ResponseCallbacks }

Quiet ==
    /\ \A s \in Sockets : os[s].rxq = <<>>
    /\ \A s \in Sockets : wk[s].pc \notin {"callback", "reply"}

NextEcho ==
    \/ \E cfg \in EchoConfigs : StartReceiving("b", cfg)
    \/ \E ok \in BOOLEAN : StartReceivingBind("b", ok)
    \/ StartReceivingStartTask("b")
    \/ \E got \in BOOLEAN : ServerReceive("b", got)
    \/ ServerBackoff("b")
    \/ ServerCallback("b")
    \/ \E n \in {-1, Len(wk["b"].response)} : ServerReply("b", n)
    \/ ServerLoop("b")
    \/ \E n \in Lengths, cfg \in EchoRequests :
          Quiet /\ Send("a", Payload(0, n), cfg)
    \/ \E ok \in BOOLEAN : SendSetReceiveTimeout("a", ok)
    \/ \E n \in -1..MaxLen : SendSendTo("a", n)
    \/ \E got \in BOOLEAN : SendReceive("a", got)
    \/ SendCallback("a")
    \/ \E s \in Sockets : Caller(s)

SpecEcho == InitFrom({<<TRUE, TRUE>>}) /\ [][NextEcho]_vars

\* ====================================================== the claims, checked
Last(seq) == seq[Len(seq)]

Has(seq, x) == \E i \in 1..Len(seq) : seq[i] = x

IsPrefix(p, q) == Len(p) <= Len(q) /\ SubSeq(q, 1, Len(p)) = p

Started(s) == task_[s].exists /\ task_[s].started

\* C1: a start_receiving call made while the worker is started returns
\* failure without making any OS call, and leaves the registered receive
\* callback, the kernel state of the descriptor (the bound port), the Task
\* (with its buffer size) and the worker thread as they were.
C1_SecondStartRejected ==
    [][ \A s \in Sockets :
          (Started(s) /\ fg[s].pc = "idle" /\ fg'[s].op = "start_receiving")
          => /\ fg'[s].pc = "returned" /\ ~fg'[s].ret
             /\ fg'[s].ops = <<>>
             /\ server_receive_callback_'[s] = server_receive_callback_[s]
             /\ os'[s] = os[s]
             /\ task_'[s] = task_[s]
             /\ wk'[s] = wk[s] ]_vars

\* A rejected start_receiving that asked for another port, buffer size and
\* callback than the ones in use.
C1_Witness ==
    /\ Started("a")
    /\ fg["a"].op = "start_receiving" /\ fg["a"].pc = "returned" /\ ~fg["a"].ret
    /\ fg["a"].ops = <<>>
    /\ fg["a"].cfg.on_receive_callback # server_receive_callback_["a"]
    /\ fg["a"].cfg.buffer_size # task_["a"].buffer_size
    /\ fg["a"].cfg.port # os["a"].port

\* The OS calls one send makes when none fails and it waits for a response.
SendOrder(cfg) ==
    (IF cfg.is_multicast_endpoint THEN <<"make_multicast">> ELSE <<>>)
        \o <<"set_receive_timeout", "sendto", "recvfrom">>

\* C2: the OS calls of one send are a prefix of: make_multicast (only for a
\* multicast endpoint), set_receive_timeout, sendto, recvfrom; the response
\* receive is reached or made only after a sendto that succeeded, and only
\* when waiting for a response.
C2_SendStepOrder ==
    \A s \in Sockets :
        fg[s].op = "send"
        => /\ IsPrefix(fg[s].ops, SendOrder(fg[s].cfg))
           /\ (fg[s].pc = "send_receive" \/ Has(fg[s].ops, "recvfrom"))
              => /\ Has(fg[s].ops, "sendto")
                 /\ Len(fg[s].sent) = 1
                 /\ fg[s].cfg.wait_for_response

\* A multicast send that made all four OS calls and returned success.
C2_Witness ==
    /\ fg["a"].op = "send" /\ fg["a"].pc = "returned" /\ fg["a"].ret
    /\ fg["a"].ops = <<"make_multicast", "set_receive_timeout", "sendto", "recvfrom">>

\* C3: a send on an invalid descriptor returns failure without any OS call;
\* a send whose make_multicast or set_receive_timeout failed has returned
\* failure with that call as its last one: nothing was transmitted, no
\* response was awaited and the response callback was not invoked.
C3_SendAbortsOnFailure ==
    \A s \in Sockets :
        fg[s].op = "send"
        => /\ ~IsValid(socket_[s])
              => /\ fg[s].pc = "returned" /\ ~fg[s].ret
                 /\ fg[s].ops = <<>> /\ fg[s].sent = <<>> /\ fg[s].cb_args = <<>>
           /\ (/\ fg[s].ops # <<>>
               /\ Last(fg[s].ops) \in {"make_multicast", "set_receive_timeout"}
               /\ ~fg[s].ok)
              => /\ fg[s].pc = "returned" /\ ~fg[s].ret
                 /\ ~Has(fg[s].ops, "sendto") /\ ~Has(fg[s].ops, "recvfrom")
                 /\ fg[s].sent = <<>> /\ fg[s].consumed = <<>>
                 /\ fg[s].cb_args = <<>>
                 /\ (Last(fg[s].ops) = "make_multicast"
                        => ~Has(fg[s].ops, "set_receive_timeout"))

\* A send that waits for a response, with a callback, whose
\* set_receive_timeout failed after make_multicast had succeeded.
C3_Witness ==
    /\ fg["a"].op = "send" /\ fg["a"].pc = "returned" /\ ~fg["a"].ret
    /\ fg["a"].ops = <<"make_multicast", "set_receive_timeout">> /\ ~fg["a"].ok
    /\ fg["a"].cfg.wait_for_response /\ fg["a"].cfg.response_size > 0
    /\ fg["a"].cfg.on_response_callback # "null"

\* The datagram a send transmitted is short of the payload it was given.
PartialSend(f) == f.sent # <<>> /\ Len(f.sent[1].data) < Len(f.data)

\* C4: when sendto reported an error or transmitted fewer bytes than the
\* payload holds, send has returned failure without waiting for a response;
\* a payload of zero bytes goes out as a zero-length datagram and the
\* transmission is not what makes the send fail.
C4_SendFailsOnErrorOrPartial ==
    \A s \in Sockets :
        (fg[s].op = "send" /\ Has(fg[s].ops, "sendto"))
        => /\ (fg[s].sent = <<>> \/ PartialSend(fg[s]))
              => /\ fg[s].pc = "returned" /\ ~fg[s].ret
                 /\ ~Has(fg[s].ops, "recvfrom")
           /\ (Len(fg[s].data) = 0 /\ fg[s].sent # <<>>)
              => /\ fg[s].sent[1].data = <<>>
                 /\ ~(fg[s].pc = "returned" /\ ~fg[s].ret
                        /\ Last(fg[s].ops) = "sendto")

\* C5: once the datagram is transmitted and wait_for_response is false or
\* response_size is zero, send has returned success: no receive was made
\* and the response callback was not invoked.
C5_NoWaitReturnsSuccess ==
    \A s \in Sockets :
        (/\ fg[s].op = "send" /\ fg[s].sent # <<>>
         /\ (~fg[s].cfg.wait_for_response \/ fg[s].cfg.response_size = 0))
        => /\ fg[s].pc = "returned" /\ fg[s].ret
           /\ Last(fg[s].ops) = "sendto"
           /\ ~Has(fg[s].ops, "recvfrom")
           /\ fg[s].consumed = <<>>
           /\ fg[s].cb_args = <<>>

\* A send asked to wait, with a response callback, but with response_size 0,
\* while a datagram was queued on the socket.
C5_Witness ==
    /\ fg["a"].op = "send" /\ fg["a"].pc = "returned" /\ fg["a"].ret
    /\ fg["a"].sent # <<>>
    /\ fg["a"].cfg.wait_for_response /\ fg["a"].cfg.response_size = 0
    /\ fg["a"].cfg.on_response_callback # "null"
    /\ os["a"].rxq # <<>>

Delivered(d, max) == SubSeq(d.data, 1, Min(Len(d.data), max))

\* C7: when the receive a send waits in has succeeded, either the send is
\* about to invoke its response callback and has not returned, or it has
\* returned success; by then a registered callback was invoked exactly once,
\* by the sending thread, with exactly the bytes received, and with no
\* callback registered nothing was invoked.
C7_ResponseCallbackOnce ==
    \A s \in Sockets :
        (/\ fg[s].op = "send" /\ fg[s].ops # <<>>
         /\ Last(fg[s].ops) = "recvfrom" /\ fg[s].ok)
        => /\ Len(fg[s].consumed) = 1
           /\ fg[s].received_data =
                Delivered(fg[s].consumed[1], fg[s].cfg.response_size)
           /\ IF fg[s].pc = "returned"
              THEN /\ fg[s].ret
                   /\ fg[s].cb_args =
                        IF fg[s].cfg.on_response_callback # "null"
                        THEN <<fg[s].received_data>> ELSE <<>>
              ELSE /\ fg[s].pc = "send_callback"
                   /\ fg[s].cfg.on_response_callback # "null"
                   /\ fg[s].cb_args = <<>>

\* A send whose callback got a response that differs from what was sent.
C7_Witness ==
    /\ fg["a"].op = "send" /\ fg["a"].pc = "returned" /\ fg["a"].ret
    /\ Len(fg["a"].cb_args) = 1
    /\ fg["a"].cb_args[1] # <<>> /\ fg["a"].cb_args[1] # fg["a"].data

\* C8: one send takes at most one datagram off the socket's queue and
\* invokes the response callback at most once; the step in which it takes
\* one takes the head of the queue and leaves the rest queued.
C8_AtMostOneResponse ==
    /\ [](\A s \in Sockets :
            fg[s].op = "send"
            => /\ Len(fg[s].consumed) <= 1
               /\ Len(fg[s].cb_args) <= 1
               /\ Len(fg[s].ops) <= Len(SendOrder(fg[s].cfg)))
    /\ [][ \A s \in Sockets :
            (fg'[s].op = "send" /\ fg'[s].consumed # fg[s].consumed)
            => /\ fg'[s].consumed = <<Head(os[s].rxq)>>
               /\ os'[s].rxq = Tail(os[s].rxq) ]_vars

\* A send that returned with its one response while a later datagram, from
\* another sender, is still queued on the socket.
C8_Witness ==
    /\ fg["a"].op = "send" /\ fg["a"].pc = "returned" /\ fg["a"].ret
    /\ Len(fg["a"].consumed) = 1 /\ Len(fg["a"].cb_args) = 1
    /\ os["a"].rxq # <<>>
    /\ Head(os["a"].rxq).from # fg["a"].consumed[1].from

\* The send of thread record f has called set_receive_timeout.
AskedTimeout(f) == f.op = "send" /\ Has(f.ops, "set_receive_timeout")

\* The send of thread record f is past its set_receive_timeout step.
PastTimeout(f) ==
    /\ f.op = "send"
    /\ \/ f.pc \in {"send_sendto", "send_receive", "send_callback"}
       \/ Has(f.ops, "sendto")

\* A step in which the thread whose record goes from f to g calls recvfrom.
CallsRecvFrom(f, g) ==
    /\ g.ops # f.ops /\ g.ops # <<>> /\ Last(g.ops) = "recvfrom"

\* C9 as claimed: a send that got past multicast configuration, and so
\* called set_receive_timeout, has left the descriptor's receive timeout at
\* its response_timeout.
C9_EverySendSetsTimeout ==
    \A s \in Sockets :
        AskedTimeout(fg[s]) => os[s].rcvtimeo = fg[s].cfg.response_timeout

\* C9 amended: a send whose set_receive_timeout succeeded has left the
\* descriptor's receive timeout at its response_timeout, also when it does
\* not wait for a response; the timeout in force is always the one of the
\* latest such send, and it is the timeout every recvfrom of the foreground
\* thread and of the server loop runs under.
C9_TimeoutPersists ==
    /\ [](\A s \in Sockets :
            /\ PastTimeout(fg[s]) => os[s].rcvtimeo = fg[s].cfg.response_timeout
            /\ os[s].rcvtimeo = hist[s].applied)
    /\ [][ \A s \in Sockets :
            /\ CallsRecvFrom(fg[s], fg'[s]) => fg'[s].rx_timeout = hist[s].applied
            /\ CallsRecvFrom(wk[s], wk'[s]) => wk'[s].rx_timeout = hist[s].applied ]_vars

\* The server loop's receive timed out under the timeout of a send that did
\* not wait for a response.
C9_Witness ==
    /\ fg["a"].op = "send" /\ fg["a"].pc = "returned" /\ fg["a"].ret
    /\ ~fg["a"].cfg.wait_for_response
    /\ wk["a"].pc = "backoff" /\ ~wk["a"].ok
    /\ wk["a"].rx_timeout = fg["a"].cfg.response_timeout
    /\ os["a"].rxq = <<>>

\* C10: a receive on a valid descriptor calls recvfrom exactly once; when it
\* succeeds it took one datagram, the n the OS reported is at most
\* max_num_bytes, data holds exactly the first n bytes of that datagram and
\* remote_info holds the address and the port of the peer that sent it.
C10_ReceiveResult ==
    \A s \in Sockets :
        (fg[s].op = "receive" /\ IsValid(socket_[s]))
        => /\ fg[s].pc = "returned"
           /\ fg[s].ops = <<"recvfrom">>
           /\ fg[s].ret = fg[s].ok
           /\ fg[s].ret
              => /\ Len(fg[s].consumed) = 1
                 /\ fg[s].n = Min(Len(fg[s].consumed[1].data), fg[s].cfg.max_num_bytes)
                 /\ fg[s].n <= fg[s].cfg.max_num_bytes
                 /\ Len(fg[s].received_data) = fg[s].n
                 /\ fg[s].received_data = SubSeq(fg[s].consumed[1].data, 1, fg[s].n)
                 /\ \E p \in Peers :
                        /\ fg[s].consumed[1] = PeerDatagram(p, Len(fg[s].consumed[1].data))
                        /\ fg[s].remote_info.address = p.address
                        /\ fg[s].remote_info.port = p.port

\* A receive into a buffer smaller than the datagram, with out-parameters
\* that held other bytes and another peer before.
C10_Witness ==
    /\ fg["a"].op = "receive" /\ fg["a"].pc = "returned" /\ fg["a"].ret
    /\ fg["a"].n > 0 /\ fg["a"].n < Len(fg["a"].consumed[1].data)
    /\ fg["a"].data # <<>> /\ fg["a"].data # fg["a"].received_data
    /\ fg["a"].cfg.remote_info.port = 6000
    /\ fg["a"].remote_info.port = 5000

\* C11: a receive that failed has returned false with data and the address
\* and port of remote_info as they were before the call; on an invalid
\* descriptor it made no OS call, on a valid one exactly one recvfrom.
C11_FailedReceiveLeavesOutputs ==
    \A s \in Sockets :
        (fg[s].op = "receive" /\ ~fg[s].ret)
        => /\ fg[s].pc = "returned"
           /\ fg[s].received_data = fg[s].data
           /\ fg[s].remote_info.address = fg[s].cfg.remote_info.address
           /\ fg[s].remote_info.port = fg[s].cfg.remote_info.port
           /\ fg[s].consumed = <<>>
           /\ fg[s].ops = IF IsValid(socket_[s]) THEN <<"recvfrom">> ELSE <<>>

\* A receive that failed on a valid socket, although a datagram was queued,
\* with out-parameters that held bytes and a peer before.
C11_Witness ==
    /\ fg["a"].op = "receive" /\ fg["a"].pc = "returned" /\ ~fg["a"].ret
    /\ fg["a"].ops = <<"recvfrom">>
    /\ fg["a"].data # <<>> /\ fg["a"].received_data = fg["a"].data
    /\ fg["a"].cfg.remote_info.port = 6000
    /\ os["a"].rxq # <<>>

\* The OS calls of a start_receiving with configuration cfg that succeeds.
StartOrder(cfg) ==
    <<"bind">>
    \o (IF cfg.is_multicast_endpoint
        THEN <<"make_multicast", "add_multicast_group">> ELSE <<>>)
    \o <<"task_start">>

\* C12: a start_receiving that returned failure did not create or start a
\* worker: on an invalid descriptor it made no call at all, after a failed
\* bind no multicast call, and after a failed make_multicast or
\* add_multicast_group the socket is bound to the configured port with no
\* worker; one that returned success made bind, the multicast calls if
\* requested and the start of the worker, in that order and all successful.
\* The step in which a start_receiving fails leaves Task and worker alone.
C12_FailedStartHasNoWorker ==
    /\ [](\A s \in Sockets :
            fg[s].op = "start_receiving"
            => /\ IsPrefix(fg[s].ops, StartOrder(fg[s].cfg))
               /\ ~IsValid(socket_[s]) => fg[s].ops = <<>>
               /\ (fg[s].pc = "returned" /\ ~fg[s].ret)
                  => /\ ~Has(fg[s].ops, "task_start")
                     /\ fg[s].ops # <<>>
                        => /\ ~fg[s].ok
                           /\ ~task_[s].exists /\ wk[s].pc = "off"
                           /\ Last(fg[s].ops) # "bind"
                              => os[s].port = fg[s].cfg.port
               /\ (fg[s].pc = "returned" /\ fg[s].ret)
                  => /\ fg[s].ops = StartOrder(fg[s].cfg)
                     /\ Started(s)
                     /\ task_[s].buffer_size = fg[s].cfg.buffer_size
                     /\ os[s].port = fg[s].cfg.port
                     /\ fg[s].cfg.is_multicast_endpoint
                        => /\ os[s].multicast
                           /\ fg[s].cfg.multicast_group \in os[s].groups)
    /\ [][ \A s \in Sockets :
            (fg'[s].op = "start_receiving" /\ fg'[s] # fg[s]
                /\ fg'[s].pc = "returned" /\ ~fg'[s].ret)
            => task_'[s] = task_[s] /\ wk'[s] = wk[s] ]_vars

\* A start_receiving that bound the socket and then failed to join the group.
C12_Witness ==
    /\ fg["a"].op = "start_receiving" /\ fg["a"].pc = "returned" /\ ~fg["a"].ret
    /\ fg["a"].ops = <<"bind", "make_multicast", "add_multicast_group">>
    /\ os["a"].port = fg["a"].cfg.port
    /\ ~task_["a"].exists

\* C13: between calls, a receive callback is registered on a socket only
\* while its worker is active.
C13_CallbackOnlyWithWorker ==
    \A s \in Sockets :
        (fg[s].pc \in {"idle", "returned"} /\ server_receive_callback_[s] # "null")
        => Started(s)

\* Construction of socket s failed: socket() gave no descriptor, or
\* enable_reuse failed on the descriptor it gave.
ConstructionFailed(s) == ~hist[s].created \/ ~os[s].reuse

\* C14: on a socket whose construction failed, every send, receive and
\* start_receiving has returned failure without making an OS call, nothing
\* was transmitted, received or bound, no worker runs, and destruction
\* closes the descriptor at most once.
C14_FailedConstructionUnusable ==
    \A s \in Sockets :
        ConstructionFailed(s)
        => /\ fg[s].op \in {"send", "receive", "start_receiving"}
              => /\ fg[s].pc = "returned" /\ ~fg[s].ret
                 /\ fg[s].ops = <<>>
                 /\ fg[s].sent = <<>> /\ fg[s].consumed = <<>>
           /\ os[s].port = 0
           /\ ~Started(s)
           /\ hist[s].closes <= 1

\* C15: the descriptor is closed at most once and, once the object is
\* destroyed, exactly once if socket() ever gave one and never otherwise; a
\* cleanup that found the descriptor valid shut it down, closed it and marked
\* it invalid, in that order; a cleanup that found it invalid made no OS call.
C15_ClosedExactlyOnce ==
    \A s \in Sockets :
        /\ hist[s].closes <= 1
        /\ hist[s].closes = 1 => (hist[s].created /\ ~os[s].open)
        /\ (IsValid(socket_[s]) /\ fg[s].pc # "cleanup_mark")
           => (os[s].open /\ hist[s].closes = 0)
        /\ fg[s].pc = "destroyed"
           => /\ ~IsValid(socket_[s])
              /\ hist[s].closes = IF hist[s].created THEN 1 ELSE 0
        /\ fg[s].op \in {"cleanup", "destroy"}
           => /\ IsPrefix(fg[s].ops, <<"shutdown", "close">>)
              /\ ~fg[s].cfg.was_valid => fg[s].ops = <<>>
              /\ (/\ fg[s].cfg.was_valid
                  /\ fg[s].pc \notin {"cleanup_shutdown", "cleanup_close",
                                      "cleanup_mark"})
                 => /\ fg[s].ops = <<"shutdown", "close">> /\ fg[s].ok
                    /\ ~IsValid(socket_[s]) /\ ~os[s].open
                    /\ hist[s].closes = 1

\* An object destroyed after an earlier cleanup() had closed its descriptor:
\* the destructor's cleanup made no OS call.
C15_Witness ==
    /\ fg["a"].pc = "destroyed"
    /\ ~fg["a"].cfg.was_valid /\ fg["a"].ops = <<>>
    /\ hist["a"].created /\ hist["a"].closes = 1

\* The lifecycle state of socket s.
Closed(s) ==
    \/ fg[s].pc = "destroyed"
    \/ hist[s].closes > 0 /\ ~IsValid(socket_[s])

Life(s) ==
    IF Closed(s) THEN "Closed"
    ELSE IF Started(s) THEN "Receiving"
    ELSE "Created"

\* C16: the lifecycle state changes only from Created to Receiving, in the
\* step in which a start_receiving returns success, or from Created or
\* Receiving to Closed, in a step of cleanup or of the destructor; in Closed
\* it stays Closed, every send, receive and start_receiving returns failure
\* without an OS call, and the kernel state of the descriptor never changes.
C16_Lifecycle ==
    [][ \A s \in Sockets :
          /\ Life(s)' # Life(s)
             => \/ /\ Life(s) = "Created" /\ Life(s)' = "Receiving"
                   /\ fg'[s].op = "start_receiving"
                   /\ fg'[s].pc = "returned" /\ fg'[s].ret
                \/ /\ Life(s)' = "Closed"
                   /\ fg'[s].op \in {"cleanup", "destroy"}
          /\ Life(s) = "Closed"
             => /\ Life(s)' = "Closed"
                /\ os'[s] = os[s]
                /\ fg'[s].ops # fg[s].ops => fg'[s].ops = <<>>
                /\ (fg'[s] # fg[s]
                      /\ fg'[s].op \in {"send", "receive", "start_receiving"})
                   => /\ fg'[s].pc = "returned" /\ ~fg'[s].ret
                      /\ fg'[s].ops = <<>> ]_vars

\* A send rejected on a socket that was Receiving when it was closed.
C16_Witness ==
    /\ Life("a") = "Closed" /\ Started("a")
    /\ fg["a"].op = "send" /\ fg["a"].pc = "returned" /\ ~fg["a"].ret
    /\ fg["a"].ops = <<>>

\* What the registered callback of socket s returns for the datagram the
\* worker's cycle received.
CallbackResult(s) ==
    RunReceiveCallback(server_receive_callback_[s],
                       wk[s].received_data, wk[s].sender_info)

\* The worker's cycle on socket s is over and its callback returned a value.
Replied(s) ==
    /\ wk[s].consumed # <<>> /\ wk[s].pc = "returned"
    /\ server_receive_callback_[s] # "null"
    /\ CallbackResult(s).has_value

\* C17 as claimed: a cycle whose callback returned a byte sequence has
\* transmitted exactly one datagram carrying exactly those bytes to the
\* sender of the datagram it received.
C17_ReplyAlwaysTransmitted ==
    \A s \in Sockets :
        Replied(s)
        => wk[s].sent = <<[data |-> CallbackResult(s).value,
                           to |-> wk[s].consumed[1].from]>>

\* C17 amended: a cycle that received a datagram took exactly one, holds its
\* first buffer_size bytes and the address and port of its sender; with a
\* callback registered the callback is invoked exactly once with these; if
\* it returned no value the cycle made no sendto; if it returned a byte
\* sequence the cycle made exactly one sendto, of those bytes to the sender's
\* sockaddr, and what is transmitted is the bytes the OS accepted: nothing
\* when sendto failed. With no callback registered nothing is invoked or sent.
C17_ServerCycle ==
    \A s \in Sockets :
        wk[s].consumed # <<>>
        => LET w  == wk[s]
               d  == w.consumed[1]
               cb == server_receive_callback_[s]
               r  == CallbackResult(s)
           IN  /\ Len(w.consumed) = 1
               /\ w.received_data = Delivered(d, task_[s].buffer_size)
               /\ w.sender_info.raw = d.from
               /\ \E p \in Peers : /\ d.from = SockAddr(p.address, p.port)
                                   /\ w.sender_info.address = p.address
                                   /\ w.sender_info.port = p.port
               /\ cb = "null"
                  => /\ w.pc = "returned" /\ w.cb_args = <<>>
                     /\ w.ops = <<"recvfrom">> /\ w.sent = <<>>
               /\ cb # "null"
                  => /\ w.pc \in {"callback", "reply", "returned"}
                     /\ w.cb_args =
                          IF w.pc = "callback" THEN <<>>
                          ELSE <<[data |-> w.received_data,
                                  sender |-> w.sender_info]>>
                     /\ (w.pc = "reply") => r.has_value
                     /\ (w.pc # "returned" \/ ~r.has_value)
                        => w.ops = <<"recvfrom">> /\ w.sent = <<>>
                     /\ (w.pc # "callback" /\ r.has_value)
                        => w.response = r.value
                     /\ (w.pc = "returned" /\ r.has_value)
                        => /\ w.ops = <<"recvfrom", "sendto">>
                           /\ w.sent =
                                IF w.n < 0 THEN <<>>
                                ELSE <<[data |-> SubSeq(r.value, 1, w.n),
                                        to |-> d.from]>>

\* A cycle whose callback returned an empty byte sequence for a non-empty
\* datagram: a zero-length datagram went to the sender.
C17_Witness ==
    /\ Replied("a")
    /\ wk["a"].received_data # <<>>
    /\ CallbackResult("a").value = <<>>
    /\ wk["a"].sent = <<[data |-> <<>>, to |-> wk["a"].consumed[1].from]>>

\* The worker's cycle on socket s is over and failed: its receive failed, or
\* the transmission of its reply did.
FailedCycle(s) ==
    /\ wk[s].pc = "returned" /\ wk[s].ops # <<>>
    /\ \/ Last(wk[s].ops) = "wait_for"
       \/ Last(wk[s].ops) = "sendto" /\ ~wk[s].ok

\* C18: a cycle whose receive failed, or whose reply failed, returns with the
\* Task still started, and the worker never stops the Task; whenever a
\* datagram is at the head of the queue of a socket with a started worker
\* and a registered callback, the worker eventually receives that datagram
\* and hands it to the callback.
C18_ServerLoopKeepsServing ==
    /\ [][ \A s \in Sockets :
            /\ (wk[s].pc \in {"backoff", "reply"} /\ wk'[s] # wk[s])
               => wk'[s].pc = "returned"
            /\ Started(s) => (Started(s)' /\ wk'[s].pc # "off") ]_vars
    /\ \A s \in Sockets : \A d \in PeerDatagrams :
          (/\ Started(s) /\ server_receive_callback_[s] # "null"
           /\ os[s].rxq # <<>> /\ Head(os[s].rxq) = d)
          ~> (/\ wk[s].consumed = <<d>>
              /\ wk[s].cb_args = <<[data |-> Delivered(d, task_[s].buffer_size),
                                    sender |-> wk[s].sender_info]>>)

\* A datagram waits on a socket whose worker just ended a cycle in which the
\* reply could not be transmitted.
C18_Witness ==
    /\ FailedCycle("a") /\ Last(wk["a"].ops) = "sendto"
    /\ Started("a") /\ server_receive_callback_["a"] # "null"
    /\ os["a"].rxq # <<>>

\* C19: the server loop sets no receive timeout of its own: the timeout that
\* bounded its receive is none or the response_timeout of a foreground
\* send, while the receive in which a send waits for its response is bounded
\* by that send's own response_timeout; and no step of one thread is held
\* back by the other: the worker can take its receive while a send is
\* between setting the timeout and waiting for its response.
C19_SharedReceiveTimeout ==
    /\ \A s \in Sockets :
          /\ Has(wk[s].ops, "recvfrom")
             => wk[s].rx_timeout \in
                  {0} \cup {cfg.response_timeout : cfg \in {Announce, Request}}
          /\ (fg[s].op = "send" /\ Has(fg[s].ops, "recvfrom"))
             => fg[s].rx_timeout = fg[s].cfg.response_timeout
          /\ (fg[s].op = "send" /\ fg[s].pc \in {"send_sendto", "send_receive"}
                /\ wk[s].pc = "top")
             => ENABLED ServerReceive(s, FALSE)

\* The worker's receive failed under the timeout of the send-with-wait that
\* is in progress on the foreground thread, and not under the one in force
\* when the worker was started.
C19_Witness ==
    /\ fg["a"].op = "send" /\ fg["a"].pc = "send_receive"
    /\ fg["a"].cfg.wait_for_response
    /\ wk["a"].pc = "backoff" /\ ~wk["a"].ok
    /\ Last(wk["a"].ops) = "recvfrom"
    /\ wk["a"].rx_timeout = fg["a"].cfg.response_timeout
    /\ wk["a"].rx_timeout # Announce.response_timeout

\* C20: when the descriptor is shut down while the worker is blocked in
\* receive, that receive fails and its cycle takes the failure path, with no
\* callback invocation and no reply; and in no loop cycle begun after the
\* shutdown does the worker call recvfrom or sendto once the descriptor is
\* closed.
C20_TeardownWhileBlocked ==
    [][ \A s \in Sockets :
          hist[s].at_shutdown = "top"
          => /\ (~hist[s].later /\ wk[s].pc = "top" /\ wk'[s] # wk[s])
                => /\ wk'[s].pc = "backoff" /\ wk'[s].consumed = <<>>
                   /\ wk'[s].cb_args = <<>> /\ wk'[s].sent = <<>>
             /\ (hist[s].later /\ ~os[s].open
                   /\ wk'[s].ops # wk[s].ops /\ wk'[s].ops # <<>>)
                => Last(wk'[s].ops) \notin {"recvfrom", "sendto"} ]_vars

\* ------------------------------------------------------------------- C23
\* The four bytes of a window from first to last, each a 16-bit value sent
\* high byte first.
WindowBytes(first, last) ==
    << (first % 65536) \div 256, (first % 65536) % 256,
       (last % 65536) \div 256, (last % 65536) % 256 >>

\* The writes of pixel data: those after the ramwr command.
PixelWrites(bus) == SubSeq(bus, 6, Len(bus))

RECURSIVE TotalLength(_)
TotalLength(writes) ==
    IF writes = <<>> THEN 0 ELSE Head(writes).length + TotalLength(Tail(writes))

\* C23: clear(x, y, width, height, color) addresses exactly the requested
\* area: the column window it sets runs from x+offset_x to x+width+offset_x,
\* the row window from y+offset_y to y+height+offset_y (16-bit values, high
\* byte first), and the pixel data written afterwards is width*height 16-bit
\* pixels in chunks of at most 2048 pixels.
C23_ClearAddressesArea ==
    lcd.call.op = "clear" =>
        LET c == lcd.call
            b == lcd.bus
        IN  /\ Len(b) >= 5
            /\ b[1] = [dc |-> "command", data |-> <<42>>, length |-> 1]
            /\ b[2].dc = "data" /\ b[2].length = 4
            /\ b[2].data = WindowBytes(c.x + lcd.offset_x_,
                                       c.x + c.width + lcd.offset_x_)
            /\ b[3] = [dc |-> "command", data |-> <<43>>, length |-> 1]
            /\ b[4].dc = "data" /\ b[4].length = 4
            /\ b[4].data = WindowBytes(c.y + lcd.offset_y_,
                                       c.y + c.height + lcd.offset_y_)
            /\ b[5] = [dc |-> "command", data |-> <<44>>, length |-> 1]
            /\ \A i \in 1..Len(PixelWrites(b)) :
                  /\ PixelWrites(b)[i].dc = "data"
                  /\ PixelWrites(b)[i].length <= 2048 * 2
            /\ TotalLength(PixelWrites(b)) = c.width * c.height * 2

\* ------------------------------------------------------------------- C21
\* The send of the client socket "a" made a whole round trip: its payload
\* was transmitted whole and it took a datagram off its queue.
RoundTrip(f) ==
    /\ f.op = "send" /\ f.cfg.wait_for_response
    /\ f.sent # <<>> /\ f.sent[1].data = f.data
    /\ f.consumed # <<>>

NothingReceived(w) == w.pc \notin {"off", "top"} /\ w.consumed = <<>>

\* C24: in a server-loop cycle whose receive fails the callback is not
\* invoked and nothing is transmitted, and the cycle makes one wait on the
\* condition variable before it returns; hence a new receive attempt follows
\* a failed one only after exactly one backoff wait.
C24_FailedReceiveBacksOff ==
    /\ [](\A s \in Sockets :
          NothingReceived(wk[s]) =>
             /\ wk[s].cb_args = <<>> /\ wk[s].sent = <<>>
             /\ \/ wk[s].pc = "backoff" /\ ~Has(wk[s].ops, "wait_for")
                \/ wk[s].pc = "returned" /\ Last(wk[s].ops) = "wait_for")
    /\ [][ \A s \in Sockets :
            /\ (wk[s].pc = "top" /\ wk'[s].pc # "top" /\ wk'[s].consumed = <<>>)
                  => wk'[s].pc = "backoff"
            /\ (wk[s].pc = "backoff" /\ wk'[s] # wk[s])
                  => /\ wk'[s].pc = "returned"
                     /\ wk'[s].ops = Append(wk[s].ops, "wait_for")
            /\ (NothingReceived(wk[s]) /\ wk'[s].pc = "top")
                  => /\ wk[s].pc = "returned"
                     /\ wk[s].ops \in {<<"recvfrom", "wait_for">>, <<"wait_for">>} ]_vars

\* A cycle whose recvfrom failed while a datagram was queued is over, after
\* its backoff wait.
C24_Witness ==
    /\ NothingReceived(wk["a"])
    /\ wk["a"].pc = "returned"
    /\ wk["a"].ops = <<"recvfrom", "wait_for">>
    /\ ~wk["a"].ok \/ wk["a"].n < 0
    /\ os["a"].rxq # <<>>

\* ------------------------------------------------------------------- C25
\* C25: when start_receiving was given no receive callback, every cycle
\* that receives a datagram is a no-op: the datagram is taken off the queue
\* and dropped, no callback runs, nothing is transmitted, no backoff wait
\* is made, and the cycle returns with the Task started, so that the next
\* step of the worker is the next cycle.
C25_NullCallbackDrops ==
    /\ [](\A s \in Sockets :
          (server_receive_callback_[s] = "null" /\ wk[s].consumed # <<>>) =>
             /\ wk[s].pc = "returned"
             /\ Len(wk[s].consumed) = 1
             /\ wk[s].ops = <<"recvfrom">>
             /\ wk[s].cb_args = <<>> /\ wk[s].sent = <<>>
             /\ Started(s))
    /\ [][ \A s \in Sockets :
            /\ ( /\ server_receive_callback_[s] = "null"
                 /\ wk[s].pc = "top" /\ wk'[s].consumed # <<>> )
                  => /\ wk'[s].consumed = <<Head(os[s].rxq)>>
                     /\ os'[s].rxq = Tail(os[s].rxq)
            /\ ( /\ server_receive_callback_[s] = "null"
                 /\ wk[s].consumed # <<>> /\ wk'[s] # wk[s] )
                  => wk'[s] = NewCycle("top") /\ Started(s)' ]_vars

\* A server started without a callback took a datagram of MaxLen bytes.
C25_Witness ==
    /\ server_receive_callback_["a"] = "null"
    /\ Started("a")
    /\ wk["a"].pc = "returned"
    /\ wk["a"].consumed # <<>>
    /\ Len(wk["a"].consumed[1].data) = MaxLen

\* ------------------------------------------------------------------- C26
\* The destructor of socket s has released something the loop uses: it has
\* closed the descriptor or the receive callback has been destroyed.
Released(s) ==
    /\ fg[s].op = "destroy"
    /\ \/ fg[s].pc \in {"cleanup_mark", "destroy_callback", "destroy_task", "destroyed"}
          /\ fg[s].cfg.was_valid
       \/ server_receive_callback_[s] = "destroyed"

\* C26: during destruction of a Receiving socket the worker is stopped
\* before the resources its loop uses are released: once the destructor has
\* closed the descriptor or the receive callback has been destroyed, the
\* worker takes no step of a loop cycle that reads the descriptor, invokes
\* the callback or transmits a reply.
C26_WorkerStoppedBeforeRelease ==
    [][ \A s \in Sockets :
            (Released(s) /\ wk[s].pc \in {"top", "callback", "reply"})
                => wk'[s] = wk[s] ]_vars

\* ------------------------------------------------------------------- C27
\* Socket s's send is waiting for its response and datagram d comes from
\* the address it sent to: d is a reply to it.
ReplyToWaitingSend(s, d) ==
    /\ fg[s].op = "send" /\ fg[s].pc = "send_receive"
    /\ d.from = SockAddr(fg[s].cfg.ip_address, fg[s].cfg.port)

\* C27: each datagram that leaves a socket's queue is taken by exactly one
\* receive call, the foreground thread's or the server loop's: the step takes
\* the head of the queue and adds it to what one of the two threads consumed,
\* and a thread consumes only what left the queue.  When the server loop
\* takes a reply to a waiting send, the send gets nothing of it, the loop
\* goes on to hand it to the server's receive callback, the response
\* callback is only ever invoked with a datagram the send itself consumed,
\* and a send whose own receive then fails returns failure without having
\* invoked the response callback.
C27_OneConsumerPerDatagram ==
    /\ [][ \A s \in Sockets :
            LET q == os[s].rxq
                took(old, new) == new.consumed = Append(old.consumed, Head(q))
            IN  /\ Len(os'[s].rxq) < Len(q)
                    => /\ os'[s].rxq = Tail(q)
                       /\ \/ took(fg[s], fg'[s]) /\ wk'[s] = wk[s]
                          \/ took(NewCycle("top"), wk'[s]) /\ fg'[s] = fg[s]
                /\ (fg'[s].consumed # fg[s].consumed /\ fg'[s].consumed # <<>>)
                    => Len(os'[s].rxq) < Len(q)
                /\ (wk'[s].consumed # wk[s].consumed /\ wk'[s].consumed # <<>>)
                    => Len(os'[s].rxq) < Len(q)
                /\ ( /\ q # <<>> /\ ReplyToWaitingSend(s, Head(q))
                     /\ wk'[s].consumed = <<Head(q)>> /\ wk[s].pc = "top" )
                    => /\ fg'[s] = fg[s]
                       /\ wk'[s].received_data =
                              Delivered(Head(q), task_[s].buffer_size)
                       /\ wk'[s].pc = IF server_receive_callback_[s] = "null"
                                      THEN "returned" ELSE "callback"
                /\ (wk[s].pc = "callback" /\ wk'[s] # wk[s])
                    => wk'[s].cb_args = <<[data |-> wk[s].received_data,
                                           sender |-> wk[s].sender_info]>>
                /\ ( /\ fg[s].op = "send" /\ fg[s].pc = "send_receive"
                     /\ fg'[s] # fg[s] /\ fg'[s].consumed = fg[s].consumed )
                    => /\ fg'[s].pc = "returned" /\ fg'[s].ret = FALSE
                       /\ fg'[s].cb_args = <<>> ]_vars
    /\ [](\A s \in Sockets :
            fg[s].op = "send" => Len(fg[s].cb_args) <= Len(fg[s].consumed))

\* The server loop took the reply of the peer a send was waiting for and
\* handed it to the server's callback; the send's own receive failed and it
\* returned failure without invoking its response callback.
C27_Witness ==
    /\ fg["a"].op = "send" /\ fg["a"].pc = "returned" /\ ~fg["a"].ret
    /\ fg["a"].cfg.wait_for_response
    /\ fg["a"].cfg.on_response_callback # "null"
    /\ fg["a"].sent # <<>> /\ Has(fg["a"].ops, "recvfrom")
    /\ fg["a"].consumed = <<>> /\ fg["a"].cb_args = <<>>
    /\ wk["a"].consumed # <<>>
    /\ wk["a"].consumed[1].from
          = SockAddr(fg["a"].cfg.ip_address, fg["a"].cfg.port)
    /\ wk["a"].cb_args # <<>>
    /\ wk["a"].rx_timeout = fg["a"].cfg.response_timeout

====
